---- MODULE Spec2Model ----
(***************************************************************************)
(* markethub: the checkout transaction core (cart, conditional stock       *)
(* decrement, order group / order / order item persistence) and the store  *)
(* permission resolver, modelled as state machines over the rows the       *)
(* services read and write.  A request takes one step per statement on a   *)
(* shared row; statements of an open transaction write to the request's    *)
(* private write set until commit.                                         *)
(***************************************************************************)
EXTENDS Integers, Sequences, FiniteSets, Bags, TLC

\* ------------------------------------------------------------------ bounds
MaxStock == 2       \* largest stock_quantity a product starts with or is set to
MaxQty == 2         \* largest quantity of one add_item request
MaxCartQty == 2     \* add_item requests are issued while the line stays <= this
MaxAdds == 3        \* add_item calls issued in one behaviour
MaxCheckouts == 2   \* checkout calls issued in one behaviour
MaxUpdates == 1     \* update_product calls issued in one behaviour
MaxMemberRows == 1  \* store_members rows besides one per store
MaxGrantRows == 2   \* store_access_grants rows
MaxNow == 2         \* the database clock runs from 0 to this
MaxInvites == 2     \* memberships added to a store by invite_member in a row

\* ------------------------------------------------------------- the universe
Users == {"u1", "u2"}
Reqs == {"r1", "r2"}
Stores == {"sA", "sB"}
Products == {"p1", "p2"}
NoProduct == "p0"
NoUser == "none"

\* a store id no stores row has
NoStore == "s0"

\* products.price at creation, in minor units
InitialPrice == [p \in Products |-> IF p = "p1" THEN 2 ELSE 3]

\* AddCartItemRequest.quantity: #[validate(range(min = 1, max = 1000))]
MinQuantity == 1
MaxQuantity == 1000

\* the policy figures of prepare_calculations
TaxPolicy == 0
DiscountPolicy == 0
ShippingPolicy == 0

VARIABLES
    store_of,       \* products.store_id, set at creation and never updated
    stock,          \* products.stock_quantity, committed
    price,          \* products.price, committed
    is_active,      \* products.is_active, committed
    cart,           \* cart_items per user, newest first (ORDER BY added_at DESC)
    order_groups,   \* committed order_groups rows
    orders,         \* committed orders rows
    order_items,    \* committed order_items rows
    req,            \* the in-flight requests
    nextId,         \* per request slot, the source of fresh row ids
    calls,          \* how many calls of each operation were issued
    stores,         \* stores rows
    store_members,  \* store_members rows, a bag: the id column tells equal rows apart
    store_access_grants, \* store_access_grants rows, a bag
    now,            \* the database clock, NOW()
    decision        \* what the last permission-checked call returned

shopVars == <<store_of, stock, price, is_active, cart, order_groups, orders, order_items, req, nextId, calls>>

permVars == <<stores, store_members, store_access_grants, now, decision>>

vars == <<shopVars, permVars>>

\* ------------------------------------------------------------------ helpers
RECURSIVE SeqSum(_)
SeqSum(s) == IF s = <<>> THEN 0 ELSE Head(s) + SeqSum(Tail(s))

Range(s) == {s[i] : i \in 1..Len(s)}

Perms(S) == {q \in [1..Cardinality(S) -> S] : \A i, j \in 1..Cardinality(S) : q[i] = q[j] => i = j}

ZeroDelta == [p \in Products |-> 0]

\* format!("{:x}", n)
HexDigits == <<"0", "1", "2", "3", "4", "5", "6", "7", "8", "9", "a", "b", "c", "d", "e", "f">>

RECURSIVE Hex(_)
Hex(n) == IF n < 16 THEN HexDigits[n + 1] ELSE Hex(n \div 16) \o HexDigits[(n % 16) + 1]

\* short_id: the clock in milliseconds, in hexadecimal
short_id(t) == Hex(t)

\* row ids are generated by the database and never repeat
NoId == <<"none", 0>>
FreshId(r) == <<r, nextId[r]>>

IdleReq == [op |-> "idle", pc |-> "idle", user |-> NoUser, result |-> "none",
            items |-> <<>>, calcs |-> <<>>, ci |-> 0, li |-> 0, gid |-> NoId, oid |-> NoId, group_total |-> 0,
            txGroups |-> {}, txOrders |-> {}, txItems |-> {}, txDelta |-> ZeroDelta,
            product |-> NoProduct, quantity |-> 0, store_id |-> NoStore,
            loaded |-> [price |-> 0, stock_quantity |-> 0, is_active |-> FALSE]]

\* ------------------------------------------------------------ cart_items
\* the index of the (user, product) line, 0 if absent: UNIQUE (user_id, product_id)
LineIndex(c, p) ==
    IF \E i \in 1..Len(c) : c[i].product_id = p
    THEN CHOOSE i \in 1..Len(c) : c[i].product_id = p
    ELSE 0

LineQty(c, p) == IF LineIndex(c, p) = 0 THEN 0 ELSE c[LineIndex(c, p)].quantity

\* an upsert that replaces the quantity of the line
upsert_item_replace(c, p, q) ==
    IF LineIndex(c, p) = 0
    THEN <<[product_id |-> p, quantity |-> q]>> \o c
    ELSE [c EXCEPT ![LineIndex(c, p)].quantity = q]

\* INSERT ... ON CONFLICT (user_id, product_id) DO UPDATE SET quantity = quantity + EXCLUDED.quantity
upsert_item(c, p, q) ==
    IF LineIndex(c, p) = 0
    THEN <<[product_id |-> p, quantity |-> q]>> \o c
    ELSE [c EXCEPT ![LineIndex(c, p)].quantity = @ + q]

\* a clear that deletes one line only
clear_user_one(c) == IF c = <<>> THEN c ELSE Tail(c)

\* DELETE FROM cart_items WHERE user_id = $1
clear_user(c) == <<>>

\* SELECT ... FROM cart_items c JOIN products p JOIN stores s WHERE c.user_id = $1
list_with_products(c) ==
    [i \in 1..Len(c) |->
        [product_id |-> c[i].product_id,
         store_id   |-> store_of[c[i].product_id],
         unit_price |-> price[c[i].product_id],
         quantity   |-> c[i].quantity]]

\* ---------------------------------------------------- order calculations
\* a grouping that overwrites the store's entry instead of pushing to it
group_by_store_overwrite(items) ==
    [s \in {items[i].store_id : i \in 1..Len(items)} |->
        LET own == SelectSeq(items, LAMBDA it : it.store_id = s)
        IN <<own[Len(own)]>>]

\* CartItemDetail::group_by_store: store_id -> the store's lines, in list order
group_by_store(items) ==
    [s \in {items[i].store_id : i \in 1..Len(items)} |->
        SelectSeq(items, LAMBDA it : it.store_id = s)]

\* a line subtotal that forgets the quantity
LineSubtotalUnit(line) == line.unit_price

\* line_subtotal = line.unit_price * Decimal::from(line.quantity)
LineSubtotal(line) == line.unit_price * line.quantity

\* one StoreCalculation of prepare_calculations
StoreCalculation(s, items) ==
    LET subtotal == SeqSum([i \in 1..Len(items) |-> items[i].unit_price * items[i].quantity])
    IN [store_id      |-> s,
        items         |-> items,
        subtotal      |-> subtotal,
        tax           |-> TaxPolicy,
        discount      |-> DiscountPolicy,
        shipping_cost |-> ShippingPolicy,
        total_amount  |-> subtotal + TaxPolicy + ShippingPolicy - DiscountPolicy]

\* prepare_calculations: one calculation per store, in the iteration order
\* of the HashMap, which is the permutation `order` of the stores
prepare_calculations(items, order) ==
    LET grouped == group_by_store(items)
    IN [k \in 1..Len(order) |-> StoreCalculation(order[k], grouped[order[k]])]

\* a group total that takes the first calculation only
GroupTotalFirst(calculations) == calculations[1].total_amount

\* group_total: the fold of total_amount over the calculations
GroupTotal(calculations) ==
    SeqSum([k \in 1..Len(calculations) |-> calculations[k].total_amount])

\* ------------------------------------------------------------------- locks
\* the request whose open transaction updated the product row, if any
Holder(p) == {r \in Reqs : req[r].txDelta[p] > 0}

LockedByOther(r, p) == Holder(p) \ {r} # {}

TypeOK ==
    /\ store_of \in [Products -> Stores]
    /\ stock \in [Products -> Int]
    /\ price \in [Products -> Nat]
    /\ is_active \in [Products -> BOOLEAN]
    /\ nextId \in [Reqs -> Nat]

\* the carts add_item can build: at most one line per product, each of
\* quantity >= 1, in any order of insertion
RECURSIVE CartsOver(_)
CartsOver(P) ==
    {<<>>} \cup UNION {{<<[product_id |-> p, quantity |-> q]>> \o c :
                          q \in 1..MaxCartQty, c \in CartsOver(P \ {p})} : p \in P}

\* the products are of one store or of two; every product is created with the
\* same stock_quantity, the price listed, and active
InitProducts ==
    /\ store_of \in {f \in [Products -> Stores] : f["p1"] = "sA"}
    /\ stock \in {[p \in Products |-> n] : n \in 1..MaxStock}
    /\ price = InitialPrice
    /\ is_active = [p \in Products |-> TRUE]

\* no store exists yet
InitNoStores ==
    /\ stores = {}
    /\ store_members = EmptyBag
    /\ store_access_grants = EmptyBag
    /\ now = 0
    /\ decision = "none"

Init ==
    /\ InitNoStores
    /\ InitProducts
    /\ cart \in [Users -> CartsOver(Products)]
    /\ order_groups = {}
    /\ orders = {}
    /\ order_items = {}
    /\ req = [r \in Reqs |-> IdleReq]
    /\ nextId = [r \in Reqs |-> 1]
    /\ calls = [add |-> 0, checkout |-> 0, update |-> 0]

\* a request slot is free when no call runs in it; the result of the last
\* call stays readable until the next call starts
Free(r) == req[r].pc \in {"idle", "done"}

\* every slot serves one call, and the slots are interchangeable: a call takes
\* the first slot never used
SlotOrder == <<"r1", "r2">>
Assignable(r) ==
    /\ req[r].pc = "idle"
    /\ \A i, j \in 1..Len(SlotOrder) :
          (SlotOrder[j] = r /\ i < j) => req[SlotOrder[i]].pc # "idle"

Finish(r, op, u, res) ==
    [IdleReq EXCEPT !.op = op, !.pc = "done", !.user = u, !.result = res]

DbUnchanged == UNCHANGED <<store_of, stock, price, is_active, cart, order_groups, orders, order_items>>

\* ------------------------------------------------- CartService::add_item
\* a check of the stock before the check of is_active
AddItemResultStockFirst(p, q) ==
    IF q < MinQuantity \/ q > MaxQuantity THEN "Validation"
    ELSE IF p \notin Products THEN "NotFound"
    ELSE IF stock[p] < q THEN "Conflict"
    ELSE IF ~is_active[p] THEN "BadRequest"
    ELSE "Ok"

\* validate, find the product, check is_active and the advisory stock
AddItemResult(p, q) ==
    IF q < MinQuantity \/ q > MaxQuantity THEN "Validation"
    ELSE IF p \notin Products THEN "NotFound"
    ELSE IF ~is_active[p] THEN "BadRequest"
    ELSE IF stock[p] < q THEN "Conflict"
    ELSE "Ok"

AddItemStart(r, u, p, q) ==
    /\ Free(r)
    /\ calls.add < MaxAdds
    /\ AddItemResult(p, q) = "Ok" => LineQty(cart[u], p) + q <= MaxCartQty
    /\ calls' = [calls EXCEPT !.add = @ + 1]
    /\ req' = [req EXCEPT ![r] =
           IF AddItemResult(p, q) = "Ok"
           THEN [IdleReq EXCEPT !.op = "add_item", !.pc = "upsert", !.user = u,
                                !.product = p, !.quantity = q]
           ELSE Finish(r, "add_item", u, AddItemResult(p, q))]
    /\ DbUnchanged
    /\ UNCHANGED nextId

\* self.carts.upsert_item(user_id, product_id, quantity)
AddItemUpsert(r) ==
    /\ req[r].op = "add_item" /\ req[r].pc = "upsert"
    /\ cart' = [cart EXCEPT ![req[r].user] = upsert_item(@, req[r].product, req[r].quantity)]
    /\ req' = [req EXCEPT ![r] = [@ EXCEPT !.pc = "done", !.result = "Ok"]]
    /\ UNCHANGED <<store_of, stock, price, is_active, order_groups, orders, order_items, nextId, calls>>

\* ---------------------------------------------- OrderService::checkout
\* a checkout that always finds lines in the cart
is_empty_never(items) == FALSE

\* items.is_empty()
is_empty(items) == items = <<>>

\* validate the payload, load the cart, prepare the calculations, begin the
\* transaction and insert the order group
CheckoutStart(r, u, address_ok) ==
    /\ Free(r)
    /\ calls.checkout < MaxCheckouts
    /\ calls' = [calls EXCEPT !.checkout = @ + 1]
    /\ LET items == list_with_products(cart[u])
       IN IF ~address_ok
          THEN /\ req' = [req EXCEPT ![r] = Finish(r, "checkout", u, "Validation")]
               /\ UNCHANGED nextId
          ELSE IF is_empty(items)
          THEN /\ req' = [req EXCEPT ![r] = Finish(r, "checkout", u, "BadRequest")]
               /\ UNCHANGED nextId
          ELSE /\ \E order \in Perms({items[i].store_id : i \in 1..Len(items)}) :
                    LET calculations == prepare_calculations(items, order)
                    IN req' = [req EXCEPT ![r] =
                           [IdleReq EXCEPT
                               !.op = "checkout", !.pc = "line", !.user = u,
                               !.items = items, !.calcs = calculations,
                               !.group_total = GroupTotal(calculations),
                               !.gid = FreshId(r),
                               !.txGroups = {[id |-> FreshId(r), user_id |-> u,
                                              group_number |-> "GRP-" \o short_id(now),
                                              total_amount |-> GroupTotal(calculations),
                                              payment_status |-> "Pending"]},
                               !.ci = 1, !.li = 1]]
               /\ nextId' = [nextId EXCEPT ![r] = @ + 1]
    /\ DbUnchanged

\* orders.create_order: the order of the current store calculation
CreateOrder(rq, id) ==
    LET calc == rq.calcs[rq.ci]
    IN [rq EXCEPT
           !.oid = id,
           !.txOrders = @ \cup {[id |-> id, order_group_id |-> rq.gid,
                                 order_number |-> "ORD-" \o short_id(now),
                                 user_id |-> rq.user, store_id |-> calc.store_id,
                                 subtotal |-> calc.subtotal, tax |-> calc.tax,
                                 discount |-> calc.discount,
                                 shipping_cost |-> calc.shipping_cost,
                                 total_amount |-> calc.total_amount]}]

CurrentLine(r) == req[r].calcs[req[r].ci].items[req[r].li]

\* orders.create_order_item: the order item of the current line
CreateOrderItem(rq, id) ==
    LET line == rq.calcs[rq.ci].items[rq.li]
    IN [rq EXCEPT
           !.txItems = @ \cup {[id |-> id, order_id |-> rq.oid,
                                product_id |-> line.product_id,
                                quantity |-> line.quantity,
                                unit_price |-> line.unit_price,
                                subtotal |-> LineSubtotal(line)]}]

\* the inserts that precede the decrement of the current line: the order, at
\* the first line of a store, and the order item.  They write rows of the
\* transaction's own only, so they are taken in one step with the decrement.
LineIds(r) == IF req[r].li = 1 THEN 2 ELSE 1

InsertLine(r) ==
    IF req[r].li = 1
    THEN CreateOrderItem(CreateOrder(req[r], FreshId(r)), <<r, nextId[r] + 1>>)
    ELSE CreateOrderItem(req[r], FreshId(r))

\* the stock_quantity the transaction of r sees: the committed row and its own update
VisibleStock(r, p) == stock[p] - req[r].txDelta[p]

\* a decrement whose WHERE clause lacks the stock condition
StockSufficesUnchecked(r, p, qty) == TRUE

\* UPDATE products SET stock_quantity = stock_quantity - $2
\* WHERE id = $1 AND stock_quantity >= $2: does the row qualify?
StockSuffices(r, p, qty) == VisibleStock(r, p) >= qty

\* a decrement by one unit whatever the quantity
DecrementedByOne(delta, p, qty) == [delta EXCEPT ![p] = @ + 1]

\* SET stock_quantity = stock_quantity - $2, in the write set of the transaction
Decremented(delta, p, qty) == [delta EXCEPT ![p] = @ + qty]

\* the position after the current line: next line, next calculation, or commit
Advance(rq) ==
    IF rq.li < Len(rq.calcs[rq.ci].items)
    THEN [rq EXCEPT !.li = @ + 1]
    ELSE IF rq.ci < Len(rq.calcs)
    THEN [rq EXCEPT !.ci = @ + 1, !.li = 1]
    ELSE [rq EXCEPT !.pc = "commit"]

\* dropping the transaction: its row locks are released and the call returns the
\* error; the id of the group it had inserted stays known to the caller's slot
Rollback(rq, res) == [Finish("", rq.op, rq.user, res) EXCEPT !.gid = rq.gid]

\* statements that took effect outside the transaction
DiscardKeepsWrites(committed, written) == committed \cup written

\* a table after a transaction that wrote `written` to it is dropped
Discard(committed, written) == committed

\* the error leaves checkout by `?` with the transaction open: Drop rolls it back
Abort(r, res) ==
    /\ req' = [req EXCEPT ![r] = Rollback(InsertLine(r), res)]
    /\ order_groups' = Discard(order_groups, InsertLine(r).txGroups)
    /\ orders' = Discard(orders, InsertLine(r).txOrders)
    /\ order_items' = Discard(order_items, InsertLine(r).txItems)
    /\ nextId' = [nextId EXCEPT ![r] = @ + LineIds(r)]
    /\ UNCHANGED <<store_of, stock, price, is_active, cart, calls>>

\* decrement_stock_in_tx, one row affected
DecrementStock(r) ==
    /\ req[r].op = "checkout" /\ req[r].pc = "line"
    /\ LET line == CurrentLine(r)
       IN /\ ~LockedByOther(r, line.product_id)
          /\ StockSuffices(r, line.product_id, line.quantity)
          /\ req' = [req EXCEPT ![r] =
                 Advance([InsertLine(r) EXCEPT
                     !.txDelta = Decremented(@, line.product_id, line.quantity)])]
    /\ nextId' = [nextId EXCEPT ![r] = @ + LineIds(r)]
    /\ DbUnchanged
    /\ UNCHANGED calls

\* decrement_stock_in_tx, no row affected: Conflict, the transaction is dropped
DecrementConflict(r) ==
    /\ req[r].op = "checkout" /\ req[r].pc = "line"
    /\ LET line == CurrentLine(r)
       IN /\ ~LockedByOther(r, line.product_id)
          /\ ~StockSuffices(r, line.product_id, line.quantity)
    /\ Abort(r, "Conflict")

\* r waits for the row lock another transaction holds
WaitsFor(r, h) ==
    /\ req[r].op = "checkout" /\ req[r].pc = "line"
    /\ h # r
    /\ h \in Holder(CurrentLine(r).product_id)

RECURSIVE WaitChain(_, _, _)
WaitChain(from, to, n) ==
    IF n = 0 THEN FALSE
    ELSE \E h \in Reqs : WaitsFor(from, h) /\ (h = to \/ WaitChain(h, to, n - 1))

\* the database detects a lock cycle and fails the waiting statement of one
\* transaction of the cycle: the error propagates and the transaction is dropped
DeadlockAbort(r) ==
    /\ WaitChain(r, r, Cardinality(Reqs))
    /\ Abort(r, "Database")

\* a commit that publishes the group, the orders and the stock, not the items
CommitWithoutItems(r) ==
    /\ req[r].op = "checkout" /\ req[r].pc = "commit"
    /\ stock' = [p \in Products |-> stock[p] - req[r].txDelta[p]]
    /\ order_groups' = order_groups \cup req[r].txGroups
    /\ orders' = orders \cup req[r].txOrders
    /\ req' = [req EXCEPT ![r] = [@ EXCEPT !.txGroups = {}, !.txOrders = {}, !.txItems = {},
                                          !.txDelta = ZeroDelta, !.pc = "clear_cart"]]
    /\ UNCHANGED <<store_of, price, is_active, cart, order_items, nextId, calls>>

\* tx.commit(): the write set becomes visible at once
Commit(r) ==
    /\ req[r].op = "checkout" /\ req[r].pc = "commit"
    /\ stock' = [p \in Products |-> stock[p] - req[r].txDelta[p]]
    /\ order_groups' = order_groups \cup req[r].txGroups
    /\ orders' = orders \cup req[r].txOrders
    /\ order_items' = order_items \cup req[r].txItems
    /\ req' = [req EXCEPT ![r] = [@ EXCEPT !.txGroups = {}, !.txOrders = {}, !.txItems = {},
                                          !.txDelta = ZeroDelta, !.pc = "clear_cart"]]
    /\ UNCHANGED <<store_of, price, is_active, cart, nextId, calls>>

\* self.carts.clear_user(user_id), then Ok(CheckoutSummary)
ClearCart(r) ==
    /\ req[r].op = "checkout" /\ req[r].pc = "clear_cart"
    /\ cart' = [cart EXCEPT ![req[r].user] = clear_user(@)]
    /\ req' = [req EXCEPT ![r] = [@ EXCEPT !.pc = "done", !.result = "Ok"]]
    /\ UNCHANGED <<store_of, stock, price, is_active, order_groups, orders, order_items, nextId, calls>>

\* a failed clear that takes the committed order group back
ClearCartFailsUndoes(r) ==
    /\ req[r].op = "checkout" /\ req[r].pc = "clear_cart"
    /\ req' = [req EXCEPT ![r] = [@ EXCEPT !.pc = "done", !.result = "Database"]]
    /\ order_groups' = {g \in order_groups : g.id # req[r].gid}
    /\ UNCHANGED <<store_of, stock, price, is_active, cart, orders, order_items, nextId, calls>>

\* self.carts.clear_user(user_id) returns an error after the commit: the `?`
\* returns it to the caller, nothing is deleted
ClearCartFails(r) ==
    /\ req[r].op = "checkout" /\ req[r].pc = "clear_cart"
    /\ req' = [req EXCEPT ![r] = [@ EXCEPT !.pc = "done", !.result = "Database"]]
    /\ DbUnchanged
    /\ UNCHANGED <<nextId, calls>>

\* ---------------------------------------- ProductService::update_product
\* an absent field of UpdateProductRequest
Absent == -1

\* find_by_id, then overwrite the fields the payload carries
UpdateStart(r, p, new_price, new_stock, new_active) ==
    /\ Free(r)
    /\ calls.update < MaxUpdates
    /\ calls' = [calls EXCEPT !.update = @ + 1]
    /\ req' = [req EXCEPT ![r] =
           [IdleReq EXCEPT !.op = "update_product", !.pc = "save", !.product = p,
               !.loaded = [price |-> IF new_price = Absent THEN price[p] ELSE new_price,
                           stock_quantity |-> IF new_stock = Absent THEN stock[p] ELSE new_stock,
                           is_active |-> IF new_active = Absent THEN is_active[p]
                                         ELSE new_active = 1]]]
    /\ DbUnchanged
    /\ UNCHANGED nextId

\* self.products.save(&product): the UPDATE of the whole row waits for the row lock
UpdateSave(r) ==
    /\ req[r].op = "update_product" /\ req[r].pc = "save"
    /\ Holder(req[r].product) = {}
    /\ price' = [price EXCEPT ![req[r].product] = req[r].loaded.price]
    /\ stock' = [stock EXCEPT ![req[r].product] = req[r].loaded.stock_quantity]
    /\ is_active' = [is_active EXCEPT ![req[r].product] = req[r].loaded.is_active]
    /\ req' = [req EXCEPT ![r] = Finish(r, "update_product", NoUser, "Ok")]
    /\ UNCHANGED <<store_of, cart, order_groups, orders, order_items, nextId, calls>>

NewPrice == 4

\* the steps of checkout calls
CheckoutStep(r) ==
    \/ \E u \in Users, address_ok \in BOOLEAN :
          Assignable(r) /\ CheckoutStart(r, u, address_ok)
    \/ DecrementStock(r)
    \/ DecrementConflict(r)
    \/ DeadlockAbort(r)
    \/ Commit(r)
    \/ ClearCart(r)

Next == (\E r \in Reqs : CheckoutStep(r)) /\ UNCHANGED permVars

Spec == Init /\ [][Next]_vars

\* ------------------------------------------------------ the cart alone
\* products of any stock, active or not, and empty carts
InitCart ==
    /\ InitNoStores
    /\ store_of = [p \in Products |-> "sA"]
    /\ stock \in [Products -> 0..MaxStock]
    /\ price = InitialPrice
    /\ is_active \in [Products -> BOOLEAN]
    /\ cart = [u \in Users |-> <<>>]
    /\ order_groups = {}
    /\ orders = {}
    /\ order_items = {}
    /\ req = [r \in Reqs |-> IdleReq]
    /\ nextId = [r \in Reqs |-> 1]
    /\ calls = [add |-> 0, checkout |-> 0, update |-> 0]

\* the quantities of the add_item payloads: in range, below and above it
AddQuantities == (0..MaxQty) \cup {MaxQuantity + 1}

\* the steps of add_item calls
CartStep(r) ==
    \/ \E u \in Users, p \in Products \cup {NoProduct}, q \in AddQuantities :
          Assignable(r) /\ AddItemStart(r, u, p, q)
    \/ AddItemUpsert(r)

NextCart == (\E r \in Reqs : CartStep(r)) /\ UNCHANGED permVars

SpecCart == InitCart /\ [][NextCart]_vars

\* ------------------------------------------------------- the stock race
\* one product with stock_quantity = 1, and every user's cart holds 1 unit of it
InitRace ==
    /\ InitNoStores
    /\ \E p \in Products :
          /\ stock \in {f \in [Products -> 1..MaxStock] : f[p] = 1}
          /\ cart = [u \in Users |-> <<[product_id |-> p, quantity |-> 1]>>]
    /\ store_of \in [Products -> Stores]
    /\ price = InitialPrice
    /\ is_active = [p \in Products |-> TRUE]
    /\ order_groups = {}
    /\ orders = {}
    /\ order_items = {}
    /\ req = [r \in Reqs |-> IdleReq]
    /\ nextId = [r \in Reqs |-> 1]
    /\ calls = [add |-> 0, checkout |-> 0, update |-> 0]

\* every user calls checkout once, each call in a slot of its own
RaceStep(r) ==
    \/ \E u \in Users :
          /\ req[r].pc = "idle"
          /\ \A o \in Reqs : req[o].user # u
          /\ CheckoutStart(r, u, TRUE)
    \/ DecrementStock(r)
    \/ DecrementConflict(r)
    \/ Commit(r)
    \/ ClearCart(r)

NextRace == (\E r \in Reqs : RaceStep(r)) /\ UNCHANGED permVars

SpecRace == InitRace /\ [][NextRace]_vars

\* ------------------------------------------------------------ permissions
\* Permission::as_str
as_str ==
    [ViewProducts    |-> "VIEW_PRODUCTS",
     CreateProducts  |-> "CREATE_PRODUCTS",
     EditProducts    |-> "EDIT_PRODUCTS",
     DeleteProducts  |-> "DELETE_PRODUCTS",
     ViewOrders      |-> "VIEW_ORDERS",
     ProcessOrders   |-> "PROCESS_ORDERS",
     CancelOrders    |-> "CANCEL_ORDERS",
     ViewMembers     |-> "VIEW_MEMBERS",
     InviteMembers   |-> "INVITE_MEMBERS",
     EditPermissions |-> "EDIT_PERMISSIONS",
     GrantAccess     |-> "GRANT_ACCESS",
     RevokeAccess    |-> "REVOKE_ACCESS",
     ViewStats       |-> "VIEW_STATS",
     ExportReports   |-> "EXPORT_REPORTS"]

\* enum Permission
Permissions == DOMAIN as_str

\* Permission::all()
PERMISSION_LIST == {as_str[p] : p \in Permissions}

\* enum MemberRole, enum AccessLevel
MemberRoles == {"Owner", "Admin", "Manager", "Staff", "Custom"}
AccessLevels == {"View", "ViewAndBuy"}

\* the ASCII lower-case form of the strings a permissions column holds here
AsciiLower ==
    [VIEW_PRODUCTS    |-> "view_products",
     CREATE_PRODUCTS  |-> "create_products",
     EDIT_PRODUCTS    |-> "edit_products",
     DELETE_PRODUCTS  |-> "delete_products",
     VIEW_ORDERS      |-> "view_orders",
     PROCESS_ORDERS   |-> "process_orders",
     CANCEL_ORDERS    |-> "cancel_orders",
     VIEW_MEMBERS     |-> "view_members",
     INVITE_MEMBERS   |-> "invite_members",
     EDIT_PERMISSIONS |-> "edit_permissions",
     GRANT_ACCESS     |-> "grant_access",
     REVOKE_ACCESS    |-> "revoke_access",
     VIEW_STATS       |-> "view_stats",
     EXPORT_REPORTS   |-> "export_reports",
     Process_Orders   |-> "process_orders"]

to_ascii_lowercase(v) == IF v \in DOMAIN AsciiLower THEN AsciiLower[v] ELSE v

\* str::eq_ignore_ascii_case
eq_ignore_ascii_case(a, b) == to_ascii_lowercase(a) = to_ascii_lowercase(b)

\* expires_at IS NULL: an Option is the set of at most one value
Null == {}

\* ROLE_PERMISSIONS: the default permissions of the named roles
ROLE_PERMISSIONS ==
    [Owner   |-> Permissions,
     Admin   |-> Permissions,
     Manager |-> {"ViewProducts", "CreateProducts", "EditProducts", "ViewOrders",
                  "ProcessOrders", "ViewStats"},
     Staff   |-> {"ViewProducts", "ViewOrders"}]

\* a membership step that also allows what the role's defaults hold
member_has_permission_by_role(permissions, role, permission) ==
    IF role \in {"Owner", "Admin"} THEN TRUE
    ELSE \/ role \in DOMAIN ROLE_PERMISSIONS /\ permission \in ROLE_PERMISSIONS[role]
         \/ \E value \in permissions : eq_ignore_ascii_case(value, as_str[permission])

\* PermissionService::member_has_permission
member_has_permission(permissions, role, permission) ==
    IF role \in {"Owner", "Admin"} THEN TRUE
    ELSE \E value \in permissions : eq_ignore_ascii_case(value, as_str[permission])

\* access_allows
access_allows(level, permission) ==
    IF level = "View" THEN permission \in {"ViewProducts", "ViewOrders"}
    ELSE permission \in {"ViewProducts", "ViewOrders", "ProcessOrders"}

\* fetch_optional: None when no row qualifies, else one of the qualifying rows,
\* the query giving no order.  An Option is the set of at most one row.
fetch_optional(rows) == IF rows = {} THEN {{}} ELSE {{x} : x \in rows}

\* the queries over given tables S (stores), M (store_members), G
\* (store_access_grants) at clock t
\* a lookup that lacks WHERE id = $1
find_by_id_in_any(S, store_id) == S

\* StoreRepository::find_by_id over S
find_by_id_in(S, store_id) == {st \in S : st.id = store_id}

find_membership_in(M, store_id, user_id) ==
    fetch_optional({m \in BagToSet(M) :
        m.store_id = store_id /\ m.user_id = user_id /\ m.is_active})

\* a WHERE clause that lacks is_revoked = false
GrantIsActiveAtUnrevoked(g, t) == g.expires_at = Null \/ \E e \in g.expires_at : e > t

\* the WHERE clause of AccessGrantRepository::find_active at clock t
GrantIsActiveAt(g, t) == ~g.is_revoked /\ (g.expires_at = Null \/ \E e \in g.expires_at : e > t)

find_active_in(G, t, store_id, user_id) ==
    fetch_optional({g \in BagToSet(G) :
        g.store_id = store_id /\ g.user_id = user_id /\ GrantIsActiveAt(g, t)})

\* StoreRepository::find_by_id
find_by_id(store_id) == find_by_id_in(stores, store_id)

\* MemberRepository::find_membership
find_membership(store_id, user_id) == find_membership_in(store_members, store_id, user_id)

\* the WHERE clause of AccessGrantRepository::find_active
GrantIsActive(g) == GrantIsActiveAt(g, now)

\* AccessGrantRepository::find_active
find_active(store_id, user_id) == find_active_in(store_access_grants, now, store_id, user_id)

\* a resolver that never looks at is_private
ResolvePublic(store, member, grant, permission) ==
    IF \E m \in member : member_has_permission(m.permissions, m.role, permission)
    THEN "Ok"
    ELSE IF permission \in {"ViewProducts", "ViewOrders"}
    THEN "Ok"
    ELSE IF \E g \in grant : access_allows(g.access_level, permission)
    THEN "Ok"
    ELSE "Authorization"

\* the body of ensure_store_permission once the store, the membership and the
\* grant are fetched
Resolve(store, member, grant, permission) ==
    IF \E m \in member : member_has_permission(m.permissions, m.role, permission)
    THEN "Ok"
    ELSE IF ~store.is_private /\ permission \in {"ViewProducts", "ViewOrders"}
    THEN "Ok"
    ELSE IF \E g \in grant : access_allows(g.access_level, permission)
    THEN "Ok"
    ELSE "Authorization"

\* PermissionService::ensure_store_permission over given tables: the results
\* the call can return
ensure_store_permission_in(S, M, G, t, user_id, store_id, permission) ==
    IF find_by_id_in(S, store_id) = {} THEN {"NotFound"}
    ELSE {Resolve(store, member, grant, permission) :
             store \in find_by_id_in(S, store_id),
             member \in find_membership_in(M, store_id, user_id),
             grant \in find_active_in(G, t, store_id, user_id)}

\* PermissionService::ensure_store_permission: the results the call can return
ensure_store_permission(user_id, store_id, permission) ==
    ensure_store_permission_in(stores, store_members, store_access_grants, now,
                               user_id, store_id, permission)

\* MemberRepository::add_member: INSERT INTO store_members, is_active by default
add_member(store_id, user_id, role, permissions) ==
    store_members (+) SetToBag({[store_id |-> store_id, user_id |-> user_id, role |-> role,
                                 permissions |-> {as_str[q] : q \in permissions},
                                 is_active |-> TRUE]})

\* AccessGrantRepository::grant: INSERT INTO store_access_grants
grant(store_id, user_id, access_level) ==
    store_access_grants (+) SetToBag({[store_id |-> store_id, user_id |-> user_id,
                                       access_level |-> access_level,
                                       is_revoked |-> FALSE, expires_at |-> Null]})

\* the rows the UPDATE of AccessGrantRepository::revoke changes
RevokeHits(g, store_id, user_id) ==
    g.store_id = store_id /\ g.user_id = user_id /\ ~g.is_revoked

\* AccessGrantRepository::revoke: SET is_revoked = true on every row that qualifies
revoke(store_id, user_id) ==
    LET B == store_access_grants
        upd(g) == IF RevokeHits(g, store_id, user_id) THEN [g EXCEPT !.is_revoked = TRUE] ELSE g
    IN [y \in {upd(g) : g \in DOMAIN B} |->
           (IF y \in DOMAIN B THEN B[y] ELSE 0)
           + (LET x == [y EXCEPT !.is_revoked = FALSE]
              IN IF y.is_revoked /\ x \in DOMAIN B /\ RevokeHits(x, store_id, user_id)
                 THEN B[x] ELSE 0)]

\* a call of the resolver
EnsureStorePermission(u, s, p) ==
    /\ decision' \in ensure_store_permission(u, s, p)
    /\ UNCHANGED <<stores, store_members, store_access_grants, now>>

\* the payloads of invite_member: InviteMemberRequest.permissions
PermissionLists == {{}, {"InviteMembers"}, {"ViewProducts", "ProcessOrders"}}

\* handlers::members::invite_member: ensure_store_permission(InviteMembers)?,
\* then add_member
InviteMember(caller, store_id, user_id, role, permissions) ==
    /\ \E res \in ensure_store_permission(caller, store_id, "InviteMembers") :
          /\ decision' = res
          /\ store_members' = IF res = "Ok"
                              THEN add_member(store_id, user_id, role, permissions)
                              ELSE store_members
    /\ UNCHANGED <<stores, store_access_grants, now>>

\* an invite_member that inserts the membership without asking the resolver
invite_member_unchecked(caller, store_id, user_id, role, permissions) ==
    /\ BagCardinality(store_members) < Cardinality(stores) + MaxMemberRows
    /\ decision' = "Ok"
    /\ store_members' = add_member(store_id, user_id, role, permissions)
    /\ UNCHANGED <<stores, store_access_grants, now>>

\* handlers::members::invite_member, while store_members has room for a row
invite_member(caller, store_id, user_id, role, permissions) ==
    /\ BagCardinality(store_members) < Cardinality(stores) + MaxMemberRows
    /\ InviteMember(caller, store_id, user_id, role, permissions)

\* handlers::members::grant_access
grant_access(caller, store_id, user_id, access_level) ==
    /\ BagCardinality(store_access_grants) < MaxGrantRows
    /\ \E res \in ensure_store_permission(caller, store_id, "GrantAccess") :
          /\ decision' = res
          /\ store_access_grants' = IF res = "Ok"
                                    THEN grant(store_id, user_id, access_level)
                                    ELSE store_access_grants
    /\ UNCHANGED <<stores, store_members, now>>

\* handlers::members::revoke_access
revoke_access(caller, store_id, revoke_user_id) ==
    /\ \E res \in ensure_store_permission(caller, store_id, "RevokeAccess") :
          IF res # "Ok"
          THEN decision' = res /\ UNCHANGED store_access_grants
          ELSE IF \E g \in DOMAIN store_access_grants : RevokeHits(g, store_id, revoke_user_id)
          THEN decision' = "Ok" /\ store_access_grants' = revoke(store_id, revoke_user_id)
          ELSE decision' = "NotFound" /\ UNCHANGED store_access_grants
    /\ UNCHANGED <<stores, store_members, now>>

\* the membership create_store registers for the owner
OwnerMember(store_id, owner_id) ==
    [store_id |-> store_id, user_id |-> owner_id, role |-> "Owner",
     permissions |-> PERMISSION_LIST, is_active |-> TRUE]

\* membership rows the services read but never write in this form: one that is
\* not active, one whose permission string is in another case
SeedMembers ==
    {EmptyBag,
     SetToBag({[store_id |-> "sA", user_id |-> "u2", role |-> "Admin",
                permissions |-> {}, is_active |-> FALSE]}),
     SetToBag({[store_id |-> "sA", user_id |-> "u2", role |-> "Custom",
                permissions |-> {"Process_Orders"}, is_active |-> TRUE]})}

\* no shop activity
InitShopIdle ==
    /\ store_of = [p \in Products |-> "sA"]
    /\ stock = [p \in Products |-> 1]
    /\ price = InitialPrice
    /\ is_active = [p \in Products |-> TRUE]
    /\ cart = [u \in Users |-> <<>>]
    /\ order_groups = {}
    /\ orders = {}
    /\ order_items = {}
    /\ req = [r \in Reqs |-> IdleReq]
    /\ nextId = [r \in Reqs |-> 1]
    /\ calls = [add |-> 0, checkout |-> 0, update |-> 0]

\* store sA of u1, public or private, as create_store leaves it: owner_id and
\* the Owner membership; store sB of u2, private
InitPerm ==
    /\ InitShopIdle
    /\ stores \in {{[id |-> "sA", owner_id |-> "u1", is_private |-> b],
                    [id |-> "sB", owner_id |-> "u2", is_private |-> TRUE]} : b \in BOOLEAN}
    /\ store_members \in {SetToBag({OwnerMember("sA", "u1"), OwnerMember("sB", "u2")}) (+) seed :
                            seed \in SeedMembers}
    /\ store_access_grants = EmptyBag
    /\ now = 0
    /\ decision = "none"

PermStep ==
    \/ \E u \in Users, s \in Stores \cup {NoStore}, p \in Permissions :
          EnsureStorePermission(u, s, p)
    \/ \E c \in Users, s \in Stores, t \in Users, role \in MemberRoles, ps \in PermissionLists :
          invite_member(c, s, t, role, ps)
    \/ \E c \in Users, s \in Stores, t \in Users, level \in AccessLevels :
          grant_access(c, s, t, level)
    \/ \E c \in Users, s \in Stores, t \in Users :
          revoke_access(c, s, t)

NextPerm == PermStep /\ UNCHANGED shopVars

SpecPerm == InitPerm /\ [][NextPerm]_vars

\* ------------------------------------------------- grants over time
\* a grant row with an expiry, which the services read but never write: a
\* ViewAndBuy grant to u2 on sA that expires at clock 1
SeedGrants ==
    {EmptyBag,
     SetToBag({[store_id |-> "sA", user_id |-> "u2", access_level |-> "ViewAndBuy",
                is_revoked |-> FALSE, expires_at |-> {1}]})}

InitGrant ==
    /\ InitShopIdle
    /\ stores \in {{[id |-> "sA", owner_id |-> "u1", is_private |-> b],
                    [id |-> "sB", owner_id |-> "u2", is_private |-> TRUE]} : b \in BOOLEAN}
    /\ store_members = SetToBag({OwnerMember("sA", "u1"), OwnerMember("sB", "u2")})
    /\ store_access_grants \in SeedGrants
    /\ now = 0
    /\ decision = "none"

\* NOW() advances
Tick ==
    /\ now < MaxNow
    /\ now' = now + 1
    /\ UNCHANGED <<stores, store_members, store_access_grants, decision>>

GrantStep ==
    \/ \E u \in Users, s \in Stores \cup {NoStore}, p \in Permissions :
          EnsureStorePermission(u, s, p)
    \/ \E c \in Users, s \in Stores, t \in Users, level \in AccessLevels :
          grant_access(c, s, t, level)
    \/ \E c \in Users, s \in Stores, t \in Users :
          revoke_access(c, s, t)
    \/ Tick

NextGrant == GrantStep /\ UNCHANGED shopVars

SpecGrant == InitGrant /\ [][NextGrant]_vars

\* ------------------------------------------- StoreService::create_store
\* validate, find_by_slug, stores.create: the store row is inserted outside any
\* transaction and is visible at once.  The slug stands for the store.
CreateStoreInsert(r, owner_id, slug, is_private, valid) ==
    /\ Free(r)
    /\ IF ~valid
       THEN /\ req' = [req EXCEPT ![r] = Finish(r, "create_store", owner_id, "Validation")]
            /\ UNCHANGED stores
       ELSE IF find_by_id(slug) # {}
       THEN /\ req' = [req EXCEPT ![r] = Finish(r, "create_store", owner_id, "Conflict")]
            /\ UNCHANGED stores
       ELSE /\ stores' = stores \cup {[id |-> slug, owner_id |-> owner_id,
                                       is_private |-> is_private]}
            /\ req' = [req EXCEPT ![r] =
                   [IdleReq EXCEPT !.op = "create_store", !.pc = "add_member",
                                   !.user = owner_id, !.store_id = slug]]
    /\ UNCHANGED <<store_members, store_access_grants, now, decision>>
    /\ DbUnchanged
    /\ UNCHANGED <<nextId, calls>>

\* members.add_member(store.id, owner_id, MemberRole::Owner, Permission::all(), ..)
CreateStoreAddMember(r) ==
    /\ req[r].op = "create_store" /\ req[r].pc = "add_member"
    /\ store_members' = add_member(req[r].store_id, req[r].user, "Owner", Permissions)
    /\ req' = [req EXCEPT ![r] = [@ EXCEPT !.pc = "done", !.result = "Ok"]]
    /\ UNCHANGED <<stores, store_access_grants, now, decision>>
    /\ DbUnchanged
    /\ UNCHANGED <<nextId, calls>>

\* the INSERT of add_member fails (the connection is lost, the pool times out):
\* `.await?` returns the error, and nothing undoes the store insert
CreateStoreAddMemberFails(r) ==
    /\ req[r].op = "create_store" /\ req[r].pc = "add_member"
    /\ req' = [req EXCEPT ![r] = [@ EXCEPT !.pc = "done", !.result = "Database"]]
    /\ UNCHANGED <<stores, store_members, store_access_grants, now, decision>>
    /\ DbUnchanged
    /\ UNCHANGED <<nextId, calls>>

\* nothing exists yet
InitStore ==
    /\ InitShopIdle
    /\ InitNoStores

StoreStep ==
    \/ \E r \in Reqs, u \in Users, s \in Stores, b \in BOOLEAN, valid \in BOOLEAN :
          Assignable(r) /\ CreateStoreInsert(r, u, s, b, valid)
    \/ \E r \in Reqs : CreateStoreAddMember(r)
    \/ \E r \in Reqs : CreateStoreAddMemberFails(r)
    \/ \E u \in Users, s \in Stores, p \in Permissions :
          EnsureStorePermission(u, s, p) /\ UNCHANGED shopVars

NextStore == StoreStep

SpecStore == InitStore /\ [][NextStore]_vars

\* --------------------------------------- rows of a store that is absent
\* a membership and a grant of u2 whose store_id matches no store row; one of
\* them or both are there
DanglingMember == OwnerMember(NoStore, "u2")

DanglingGrant ==
    [store_id |-> NoStore, user_id |-> "u2", access_level |-> "ViewAndBuy",
     is_revoked |-> FALSE, expires_at |-> Null]

InitDangling ==
    /\ InitShopIdle
    /\ stores \in {{[id |-> "sA", owner_id |-> "u1", is_private |-> b],
                    [id |-> "sB", owner_id |-> "u2", is_private |-> TRUE]} : b \in BOOLEAN}
    /\ \E dm \in SUBSET {DanglingMember}, dg \in SUBSET {DanglingGrant} :
          /\ dm \cup dg # {}
          /\ store_members = SetToBag({OwnerMember("sA", "u1"), OwnerMember("sB", "u2")} \cup dm)
          /\ store_access_grants = SetToBag(dg)
    /\ now = 0
    /\ decision = "none"

\* the resolver, and the handlers that insert rows called for u2 as Staff, on
\* ids of stores and on the id of no store
DanglingStep ==
    \/ \E u \in Users, s \in Stores \cup {NoStore}, p \in Permissions :
          EnsureStorePermission(u, s, p)
    \/ \E c \in Users, s \in Stores \cup {NoStore}, ps \in PermissionLists :
          invite_member(c, s, "u2", "Staff", ps)
    \/ \E c \in Users, s \in Stores \cup {NoStore}, level \in AccessLevels :
          grant_access(c, s, "u2", level)

NextDangling == DanglingStep /\ UNCHANGED shopVars

SpecDangling == InitDangling /\ [][NextDangling]_vars

\* ------------------------------------------------- the order numbers
\* carts of lines of quantity 1, a product per store
InitNumbers ==
    /\ InitNoStores
    /\ store_of = [p \in Products |-> IF p = "p1" THEN "sA" ELSE "sB"]
    /\ \E n \in 1..MaxStock : stock = [p \in Products |-> n]
    /\ price = InitialPrice
    /\ is_active = [p \in Products |-> TRUE]
    /\ cart \in [Users -> {c \in CartsOver(Products) : \A i \in 1..Len(c) : c[i].quantity = 1}]
    /\ order_groups = {}
    /\ orders = {}
    /\ order_items = {}
    /\ req = [r \in Reqs |-> IdleReq]
    /\ nextId = [r \in Reqs |-> 1]
    /\ calls = [add |-> 0, checkout |-> 0, update |-> 0]

\* checkout calls while the clock advances, or does not
NextNumbers ==
    \/ (\E r \in Reqs : CheckoutStep(r)) /\ UNCHANGED permVars
    \/ Tick /\ UNCHANGED shopVars

SpecNumbers == InitNumbers /\ [][NextNumbers]_vars

\* ------------------------------- checkout beside add_item and update_product
\* the payloads of update_product: a new price, or is_active = false
UpdatePayloads ==
    {[price |-> NewPrice, stock_quantity |-> Absent, is_active |-> Absent],
     [price |-> Absent, stock_quantity |-> Absent, is_active |-> 0]}

\* u1 has a cart, built while every product was active; u2 has none yet
InitShop ==
    /\ InitNoStores
    /\ InitProducts
    /\ cart \in {[u \in Users |-> IF u = "u1" THEN c ELSE <<>>] : c \in CartsOver(Products)}
    /\ order_groups = {}
    /\ orders = {}
    /\ order_items = {}
    /\ req = [r \in Reqs |-> IdleReq]
    /\ nextId = [r \in Reqs |-> 1]
    /\ calls = [add |-> 0, checkout |-> 0, update |-> 0]

\* the steps of checkout, add_item and update_product calls
ShopStep(r) ==
    \/ \E u \in Users : Assignable(r) /\ CheckoutStart(r, u, TRUE)
    \/ DecrementStock(r)
    \/ DecrementConflict(r)
    \/ DeadlockAbort(r)
    \/ Commit(r)
    \/ ClearCart(r)
    \/ ClearCartFails(r)
    \/ \E u \in Users, p \in Products, q \in 1..MaxQty :
          Assignable(r) /\ AddItemStart(r, u, p, q)
    \/ AddItemUpsert(r)
    \/ \E p \in Products, payload \in UpdatePayloads :
          Assignable(r) /\ UpdateStart(r, p, payload.price, payload.stock_quantity,
                                       payload.is_active)
    \/ UpdateSave(r)

NextShop == (\E r \in Reqs : ShopStep(r)) /\ UNCHANGED permVars

SpecShop == InitShop /\ [][NextShop]_vars

\* ------------------------------------ one user: add_item calls, then checkout
InitSeq ==
    /\ InitNoStores
    /\ InitProducts
    /\ cart = [u \in Users |-> <<>>]
    /\ order_groups = {}
    /\ orders = {}
    /\ order_items = {}
    /\ req = [r \in Reqs |-> IdleReq]
    /\ nextId = [r \in Reqs |-> 1]
    /\ calls = [add |-> 0, checkout |-> 0, update |-> 0]

\* u1 issues one call after the other, add_item calls first and one checkout last
SeqStep ==
    \/ \E p \in Products, q \in 1..MaxQty :
          calls.checkout = 0 /\ AddItemStart("r1", "u1", p, q)
    \/ AddItemUpsert("r1")
    \/ calls.checkout = 0 /\ CheckoutStart("r1", "u1", TRUE)
    \/ DecrementStock("r1")
    \/ DecrementConflict("r1")
    \/ Commit("r1")
    \/ ClearCart("r1")

NextSeq == SeqStep /\ UNCHANGED permVars

SpecSeq == InitSeq /\ [][NextSeq]_vars

\* ---------------------------------- checkouts of carts with the same products
\* every user's cart holds one unit of each product, in any order of insertion
InitLock ==
    /\ InitNoStores
    /\ InitProducts
    /\ cart \in [Users -> {c \in CartsOver(Products) :
                             Len(c) = Cardinality(Products)
                             /\ \A i \in 1..Len(c) : c[i].quantity = 1}]
    /\ order_groups = {}
    /\ orders = {}
    /\ order_items = {}
    /\ req = [r \in Reqs |-> IdleReq]
    /\ nextId = [r \in Reqs |-> 1]
    /\ calls = [add |-> 0, checkout |-> 0, update |-> 0]

\* every user calls checkout once, each call in a slot of its own
LockStep(r) ==
    \/ \E u \in Users :
          /\ req[r].pc = "idle"
          /\ \A o \in Reqs : req[o].user # u
          /\ CheckoutStart(r, u, TRUE)
    \/ DecrementStock(r)
    \/ DecrementConflict(r)
    \/ DeadlockAbort(r)
    \/ Commit(r)
    \/ ClearCart(r)

NextLock == (\E r \in Reqs : LockStep(r)) /\ UNCHANGED permVars

\* every task is polled again and the database answers every statement, a
\* lock cycle included
SpecLock == InitLock /\ [][NextLock]_vars /\ WF_vars(NextLock)

\* ------------------------------------------------ invitations in a row
\* store sA of u1 as create_store leaves it; u2 is no member yet
InitInvite ==
    /\ InitShopIdle
    /\ stores \in {{[id |-> "sA", owner_id |-> "u1", is_private |-> b]} : b \in BOOLEAN}
    /\ store_members = SetToBag({OwnerMember("sA", "u1")})
    /\ store_access_grants = EmptyBag
    /\ now = 0
    /\ decision = "none"

\* the resolver, and invite_member calls on sA while fewer than MaxInvites
\* memberships were added
InviteStep ==
    \/ \E u \in Users, p \in Permissions : EnsureStorePermission(u, "sA", p)
    \/ \E c \in Users, t \in Users, role \in MemberRoles, ps \in PermissionLists :
          /\ BagCardinality(store_members) < Cardinality(stores) + MaxInvites
          /\ InviteMember(c, "sA", t, role, ps)

NextInvite == InviteStep /\ UNCHANGED shopVars

SpecInvite == InitInvite /\ [][NextInvite]_vars

\* ------------------------------------------------------------ properties
CheckoutOk(r) == req[r].op = "checkout" /\ req[r].pc = "done" /\ req[r].result = "Ok"

CheckoutFailed(r, res) == req[r].op = "checkout" /\ req[r].pc = "done" /\ req[r].result = res

GroupOrders(gid) == {o \in orders : o.order_group_id = gid}

OrderItemsOf(os) == {i \in order_items : \E o \in os : i.order_id = o.id}

RECURSIVE SumTotalAmount(_)
SumTotalAmount(S) ==
    IF S = {} THEN 0
    ELSE LET x == CHOOSE y \in S : TRUE IN x.total_amount + SumTotalAmount(S \ {x})

RECURSIVE SumSubtotal(_)
SumSubtotal(S) ==
    IF S = {} THEN 0
    ELSE LET x == CHOOSE y \in S : TRUE IN x.subtotal + SumSubtotal(S \ {x})

\* the quantity of product p among the lines a call loaded
LoadedQty(items, p) == LineQty(items, p)

\* C1: with stock_quantity = 1 and two users whose carts each hold 1 unit, once both
\* checkout calls have returned exactly one returned Ok and one Conflict, and the
\* product bought is left with stock_quantity = 0.
C1_StockRace ==
    (\A r \in Reqs : req[r].op = "checkout" /\ req[r].pc = "done") =>
        /\ Cardinality({r \in Reqs : req[r].result = "Ok"}) = 1
        /\ Cardinality({r \in Reqs : req[r].result = "Conflict"}) = 1
        /\ \A r \in Reqs : req[r].result = "Ok" => stock[req[r].items[1].product_id] = 0

C1_Witness ==
    /\ \A r \in Reqs : req[r].op = "checkout" /\ req[r].pc = "done"
    /\ \E r \in Reqs : req[r].result = "Conflict"
    /\ \E r \in Reqs : req[r].result = "Ok"

\* C2: in every reachable state every product's stock_quantity is >= 0, both the
\* committed value and the value an open checkout transaction has decremented it to.
C2_StockNeverNegative ==
    \A p \in Products : stock[p] >= 0 /\ \A r \in Reqs : VisibleStock(r, p) >= 0

C2_Witness ==
    /\ \E p \in Products : stock[p] = 0
    /\ \E r \in Reqs : CheckoutFailed(r, "Conflict")
    /\ \E r \in Reqs : CheckoutOk(r)

\* the rows a call inserted carry ids of its slot from the id of its group on
InsertedBy(r, id) == id[1] = r /\ id[2] >= req[r].gid[2]

\* C3: a conditional decrement that affects no row ends the call with Conflict and
\* changes no committed row and no stock; nothing the call inserted (group, orders,
\* items) is ever committed and no decrement of it stays pending.
C3_AllOrNothing ==
    /\ [](\A r \in Reqs : CheckoutFailed(r, "Conflict") =>
            /\ \A g \in order_groups : ~InsertedBy(r, g.id)
            /\ \A o \in orders : ~InsertedBy(r, o.id) /\ o.order_group_id # req[r].gid
            /\ \A i \in order_items : ~InsertedBy(r, i.id)
            /\ req[r].txDelta = ZeroDelta)
    /\ [][\A r \in Reqs :
            (/\ req[r].op = "checkout" /\ req[r].pc = "line"
             /\ req'[r] # req[r]
             /\ ~LockedByOther(r, CurrentLine(r).product_id)
             /\ ~StockSuffices(r, CurrentLine(r).product_id, CurrentLine(r).quantity))
            => /\ req'[r].pc = "done" /\ req'[r].result = "Conflict"
               /\ stock' = stock
               /\ order_groups' = order_groups
               /\ orders' = orders
               /\ order_items' = order_items]_vars

\* a call failed at a line of its second store, after the first store's order,
\* item and decrement
C3_Witness ==
    \E r \in Reqs : CheckoutFailed(r, "Conflict") /\ nextId[r] - req[r].gid[2] >= 5

\* C4: after a successful checkout there is exactly one order group of the call,
\* exactly one order per distinct store of the loaded cart lines, each of the
\* group and of the caller, and every loaded line has exactly one order item,
\* in the order of its product's store.
C4_OneOrderPerStore ==
    \A r \in Reqs : CheckoutOk(r) =>
        LET lines == Range(req[r].items)
            line_stores == {l.store_id : l \in lines}
            os == GroupOrders(req[r].gid)
            its == OrderItemsOf(os)
        IN /\ Cardinality({g \in order_groups :
                             g.id = req[r].gid /\ g.user_id = req[r].user}) = 1
           /\ Cardinality(os) = Cardinality(line_stores)
           /\ \A s \in line_stores :
                 Cardinality({o \in os : o.store_id = s /\ o.user_id = req[r].user}) = 1
           /\ Cardinality(its) = Cardinality(lines)
           /\ \A l \in lines :
                 Cardinality({i \in its :
                     /\ i.product_id = l.product_id
                     /\ i.quantity = l.quantity
                     /\ \E o \in os : o.id = i.order_id
                                      /\ o.store_id = store_of[l.product_id]}) = 1

C4_Witness ==
    \E r \in Reqs : /\ CheckoutOk(r)
                    /\ Len(req[r].items) = 2
                    /\ Cardinality(GroupOrders(req[r].gid)) = 2

\* C5: every committed order group's total_amount is the sum of the total_amount
\* of the committed orders of the group.
C5_GroupTotal ==
    \A g \in order_groups : g.total_amount = SumTotalAmount(GroupOrders(g.id))

C5_Witness ==
    \E g \in order_groups : Cardinality(GroupOrders(g.id)) = 2

\* C6: every committed order's subtotal is the sum of its items' subtotals, every
\* item's subtotal is unit_price * quantity, and the order's total_amount is
\* subtotal + tax + shipping_cost - discount with tax, discount, shipping_cost 0.
C6_OrderTotals ==
    /\ \A o \in orders :
          /\ o.subtotal = SumSubtotal({i \in order_items : i.order_id = o.id})
          /\ o.total_amount = o.subtotal + o.tax + o.shipping_cost - o.discount
          /\ o.tax = 0 /\ o.discount = 0 /\ o.shipping_cost = 0
    /\ \A i \in order_items : i.subtotal = i.unit_price * i.quantity

C6_Witness ==
    \E o \in orders :
        /\ Cardinality({i \in order_items : i.order_id = o.id}) = 2
        /\ \E i \in order_items : i.order_id = o.id /\ i.quantity = 2

\* C7: the step by which a checkout call returns Ok leaves the caller's cart empty.
C7_CartEmptyAfterSuccess ==
    [][\A r \in Reqs :
          (req[r].op = "checkout" /\ ~CheckoutOk(r) /\ CheckoutOk(r)')
          => cart'[req[r].user] = <<>>]_vars

C7_Witness ==
    \E r \in Reqs : CheckoutOk(r) /\ Len(req[r].items) >= 2 /\ cart[req[r].user] = <<>>

\* C8: the commit of a checkout lowers the stock_quantity of each product by the
\* quantity of the cart line the call loaded for it, and by 0 for every product
\* without a line.
C8_StockLoweredByQuantity ==
    [][\A r \in Reqs :
          (req[r].op = "checkout" /\ req[r].pc = "commit" /\ req'[r].pc = "clear_cart")
          => \A p \in Products : stock'[p] = stock[p] - LoadedQty(req[r].items, p)]_vars

C8_Witness ==
    \E r \in Reqs :
        /\ req[r].op = "checkout" /\ req[r].pc = "clear_cart"
        /\ Len(req[r].items) = 2
        /\ \E i \in 1..2 : req[r].items[i].quantity = 2

\* C9: a checkout call with a valid payload by a user whose cart is empty returns
\* BadRequest at once; it inserts no row, opens no transaction and changes no stock.
C9_EmptyCartRejected ==
    [][\A r \in Reqs, u \in Users :
          (CheckoutStart(r, u, TRUE) /\ cart[u] = <<>>)
          => /\ req'[r].pc = "done" /\ req'[r].result = "BadRequest"
             /\ req'[r].txGroups = {} /\ req'[r].txOrders = {} /\ req'[r].txItems = {}
             /\ req'[r].txDelta = ZeroDelta
             /\ order_groups' = order_groups /\ orders' = orders
             /\ order_items' = order_items /\ stock' = stock]_vars

C9_Witness ==
    \E r \in Reqs : CheckoutFailed(r, "BadRequest") /\ cart[req[r].user] = <<>>

\* what the claim says decides a call: an active membership that gives the
\* permission, a public store and a view permission, or an active grant whose
\* level implies the permission
C10_Membership(u, s, p) ==
    \E m \in BagToSet(store_members) :
        /\ m.store_id = s /\ m.user_id = u /\ m.is_active
        /\ \/ m.role \in {"Owner", "Admin"}
           \/ \E v \in m.permissions : to_ascii_lowercase(v) = to_ascii_lowercase(as_str[p])

C10_Public(s, p) ==
    /\ \E st \in stores : st.id = s /\ ~st.is_private
    /\ p \in {"ViewProducts", "ViewOrders"}

C10_Grant(u, s, p) ==
    \E g \in BagToSet(store_access_grants) :
        /\ g.store_id = s /\ g.user_id = u
        /\ ~g.is_revoked /\ (g.expires_at = Null \/ \E e \in g.expires_at : e > now)
        /\ \/ p \in {"ViewProducts", "ViewOrders"}
           \/ g.access_level = "ViewAndBuy" /\ p = "ProcessOrders"

\* C10: for every user, existing store and each of the fourteen permissions,
\* ensure_store_permission returns Ok iff the user has an active membership that
\* gives the permission, or the store is public and the permission is ViewProducts
\* or ViewOrders, or the user has an active grant whose level implies the
\* permission; otherwise it returns Authorization.
C10_AllowsIff ==
    \A u \in Users, s \in {st.id : st \in stores}, p \in Permissions :
        ensure_store_permission(u, s, p) =
            {IF C10_Membership(u, s, p) \/ C10_Public(s, p) \/ C10_Grant(u, s, p)
             THEN "Ok" ELSE "Authorization"}

\* a user holds a View and a ViewAndBuy grant on a private store, and a call was
\* refused
C10_Witness ==
    /\ decision = "Authorization"
    /\ \E u \in Users, s \in {st.id : st \in stores} :
          /\ C10_Grant(u, s, "ProcessOrders")
          /\ ~C10_Membership(u, s, "ProcessOrders")
          /\ "Authorization" \in ensure_store_permission(u, s, "ProcessOrders")

\* the active memberships of u in s
ActiveMemberships(u, s) ==
    {m \in BagToSet(store_members) : m.store_id = s /\ m.user_id = u /\ m.is_active}

ExistingStores == {st.id : st \in stores}

\* C11: for every existing store, private or public, and each of the fourteen
\* permissions, a user with an active membership of role Owner or Admin is
\* allowed, whatever the explicit permission set of that membership holds.
C11_OwnerAdminAllowed ==
    \A u \in Users, s \in ExistingStores, p \in Permissions :
        (\E m \in ActiveMemberships(u, s) : m.role \in {"Owner", "Admin"})
        => ensure_store_permission(u, s, p) = {"Ok"}

\* an Owner of a private store who also has an active Staff membership there
\* with an empty permission set, and a call that was refused
C11_Witness ==
    /\ decision = "Authorization"
    /\ \E u \in Users, s \in ExistingStores :
          /\ \E st \in stores : st.id = s /\ st.is_private
          /\ \E m \in ActiveMemberships(u, s) : m.role = "Owner"
          /\ \E m \in ActiveMemberships(u, s) : m.role = "Staff" /\ m.permissions = {}
          /\ "Authorization" \in ensure_store_permission(u, s, "CreateProducts")

\* C12: a user with no membership row and no grant row on a store is allowed
\* ViewProducts and ViewOrders and refused each of the other twelve permissions
\* with Authorization when the store is public, and refused every permission
\* with Authorization when it is private.
C12_NonMember ==
    \A u \in Users, st \in stores, p \in Permissions :
        (/\ \A m \in BagToSet(store_members) : ~(m.store_id = st.id /\ m.user_id = u)
         /\ \A g \in BagToSet(store_access_grants) : ~(g.store_id = st.id /\ g.user_id = u))
        => ensure_store_permission(u, st.id, p) =
              {IF ~st.is_private /\ p \in {"ViewProducts", "ViewOrders"}
               THEN "Ok" ELSE "Authorization"}

\* u2 has no row on the public store sA while rows exist for others, and a call
\* was refused
C12_Witness ==
    /\ decision = "Authorization"
    /\ \E st \in stores : st.id = "sA" /\ ~st.is_private
    /\ \A m \in BagToSet(store_members) : ~(m.store_id = "sA" /\ m.user_id = "u2")
    /\ \A g \in BagToSet(store_access_grants) : ~(g.store_id = "sA" /\ g.user_id = "u2")
    /\ \E g \in BagToSet(store_access_grants) : g.user_id = "u2"

\* a grant row the claim calls revoked or expired
C13_Lapsed(g) == g.is_revoked \/ \E e \in g.expires_at : e <= now

\* the grants table without the rows equal to g
C13_Without(g) == [x \in DOMAIN store_access_grants \ {g} |-> store_access_grants[x]]

\* C13: a grant row that is revoked, or whose expires_at is not later than the
\* clock, changes no decision: for every user, store and permission the resolver
\* returns what it returns on the tables without that row; and a user of a
\* private store without an active membership whose grants are all revoked or
\* expired is refused every permission with Authorization.
C13_LapsedGrantIsNoGrant ==
    /\ \A g \in DOMAIN store_access_grants : C13_Lapsed(g) =>
          \A u \in Users, s \in Stores \cup {NoStore}, p \in Permissions :
              ensure_store_permission(u, s, p) =
                  ensure_store_permission_in(stores, store_members, C13_Without(g), now, u, s, p)
    /\ \A u \in Users, st \in stores :
          (/\ st.is_private
           /\ ActiveMemberships(u, st.id) = {}
           /\ \A g \in DOMAIN store_access_grants :
                 (g.store_id = st.id /\ g.user_id = u) => C13_Lapsed(g))
          => \A p \in Permissions : ensure_store_permission(u, st.id, p) = {"Authorization"}

\* a grant row was revoked by revoke_access, the grant of u2 on sA has expired
\* without being revoked, and u2, who has no active membership of the private
\* store sA, was refused
C13_Witness ==
    /\ decision = "Authorization"
    /\ \E st \in stores : st.id = "sA" /\ st.is_private
    /\ ActiveMemberships("u2", "sA") = {}
    /\ \E g \in DOMAIN store_access_grants : g.is_revoked /\ g.expires_at = Null
    /\ \E g \in DOMAIN store_access_grants :
          /\ g.store_id = "sA" /\ g.user_id = "u2" /\ ~g.is_revoked
          /\ \E e \in g.expires_at : e <= now
    /\ \A g \in DOMAIN store_access_grants :
          (g.store_id = "sA" /\ g.user_id = "u2") => C13_Lapsed(g)

AddItemDone(r, res) == req[r].op = "add_item" /\ req[r].pc = "done" /\ req[r].result = res

\* C14: for an existing product and a quantity q with 1 <= q <= 1000, add_item
\* goes on to the upsert, and then returns Ok, iff the product is active and
\* q <= stock_quantity; it returns BadRequest when the product is inactive,
\* whatever the stock, and Conflict when it is active and stock_quantity < q, and
\* in both error cases the cart is unchanged.
C14_AddItemOutcome ==
    [][\A r \in Reqs :
          /\ \A u \in Users, p \in Products, q \in MinQuantity..MaxQty :
                AddItemStart(r, u, p, q) =>
                   /\ req'[r].pc = "upsert" <=> (is_active[p] /\ q <= stock[p])
                   /\ ~is_active[p] => (AddItemDone(r, "BadRequest")' /\ cart' = cart)
                   /\ (is_active[p] /\ stock[p] < q) => (AddItemDone(r, "Conflict")' /\ cart' = cart)
          /\ (req[r].op = "add_item" /\ req[r].pc = "upsert" /\ req'[r] # req[r])
                => AddItemDone(r, "Ok")']_vars

\* one call was refused for an inactive product that has stock, another for an
\* active product without enough stock, and no cart has a line
C14_Witness ==
    /\ \E r \in Reqs : AddItemDone(r, "BadRequest")
    /\ \E r \in Reqs : AddItemDone(r, "Conflict")
    /\ \E p \in Products : ~is_active[p] /\ stock[p] >= MinQuantity
    /\ \A u \in Users : cart[u] = <<>>

\* the sum of the quantities of the add_item calls of S
RECURSIVE SumQuantity(_)
SumQuantity(S) ==
    IF S = {} THEN 0
    ELSE LET r == CHOOSE x \in S : TRUE IN req[r].quantity + SumQuantity(S \ {r})

\* C15: the upsert of a successful add_item(user, product, q) raises the line of
\* the pair by exactly q, creating it with quantity q when the pair had none, and
\* leaves every other line as it was; in every reachable state a cart has at most
\* one line per product, and the line of a pair holds the sum of the quantities
\* of the calls that returned Ok for it, concurrent or not.
C15_UpsertAdds ==
    /\ [](\A u \in Users :
            /\ \A i, j \in 1..Len(cart[u]) :
                  cart[u][i].product_id = cart[u][j].product_id => i = j
            /\ \A p \in Products :
                  LineQty(cart[u], p) =
                     SumQuantity({r \in Reqs : AddItemDone(r, "Ok") /\ req[r].user = u
                                                /\ req[r].product = p}))
    /\ [][\A r \in Reqs :
            (req[r].op = "add_item" /\ req[r].pc = "upsert" /\ req'[r] # req[r]) =>
               \A u \in Users, p \in Products :
                  LineQty(cart'[u], p) =
                     LineQty(cart[u], p)
                     + (IF u = req[r].user /\ p = req[r].product THEN req[r].quantity ELSE 0)]_vars

\* two calls for the same pair both returned Ok and were in flight together:
\* each started while the line still had room for its quantity
C15_Witness ==
    /\ \A r \in Reqs : AddItemDone(r, "Ok") /\ req[r].user = "u1" /\ req[r].product = "p1"
    /\ LineQty(cart["u1"], "p1") > MaxCartQty
    /\ Len(cart["u1"]) = 1

\* C16: in every reachable state every store that exists has an active
\* membership of its owner_id with role Owner and the full set of fourteen
\* permissions.
C16_OwnerMembership ==
    \A st \in stores :
        \E m \in ActiveMemberships(st.owner_id, st.id) :
            m.role = "Owner" /\ m.permissions = PERMISSION_LIST

\* create_store returned the error of the failed membership insert, the store
\* it inserted exists, and a call was refused
C16_Witness ==
    /\ decision = "Authorization"
    /\ \E r \in Reqs :
          /\ req[r].op = "create_store" /\ req[r].pc = "done" /\ req[r].result = "Database"
          /\ \E st \in stores : st.id = req[r].store_id /\ st.owner_id = req[r].user
                                /\ ActiveMemberships(st.owner_id, st.id) = {}

\* C17: no two committed orders share an order_number and no two committed
\* order groups share a group_number.
C17_NumbersUnique ==
    /\ \A o1, o2 \in orders : o1.order_number = o2.order_number => o1.id = o2.id
    /\ \A g1, g2 \in order_groups : g1.group_number = g2.group_number => g1.id = g2.id

\* the clock has advanced, and still the two orders of one checkout share their
\* order_number and two order groups share their group_number
C17_Witness ==
    /\ now > 0
    /\ \E o1, o2 \in orders :
          /\ o1.id # o2.id /\ o1.order_group_id = o2.order_group_id
          /\ o1.order_number = o2.order_number
    /\ \E g1, g2 \in order_groups : g1.id # g2.id /\ g1.group_number = g2.group_number

\* the committed order items of product p in the orders of user u
UserItems(u, p) ==
    {i \in order_items : i.product_id = p /\ \E o \in orders : o.id = i.order_id /\ o.user_id = u}

\* C18: two concurrent checkout calls of one user do not both commit orders for the
\* same cart lines: a cart line (carts are filled once, before the calls) produces
\* order items at most once.
C18_CartLineOnce ==
    \A u \in Users, p \in Products : Cardinality(UserItems(u, p)) <= 1

\* both calls of the same user returned Ok and the line's product was sold twice
C18_Witness ==
    /\ \A r \in Reqs : CheckoutOk(r) /\ req[r].user = "u1"
    /\ \E p \in Products : Cardinality(UserItems("u1", p)) = 2 /\ stock[p] = 0

\* the ids of the store rows
StoreIds == {st.id : st \in stores}

\* C19: ensure_store_permission on a store id that matches no store row returns
\* NotFound for every user and every permission, also for a user with a membership
\* row and a grant row of that id; never Ok, never Authorization; and the call
\* changes no store, membership or grant row.
C19_NotFound ==
    /\ [](\A u \in Users, s \in (Stores \cup {NoStore}) \ StoreIds, p \in Permissions :
            ensure_store_permission(u, s, p) = {"NotFound"})
    /\ [][\A u \in Users, s \in (Stores \cup {NoStore}) \ StoreIds, p \in Permissions :
            EnsureStorePermission(u, s, p) =>
                /\ decision' = "NotFound"
                /\ stores' = stores
                /\ store_members' = store_members
                /\ store_access_grants' = store_access_grants]_vars

\* a call returned NotFound while u2 holds an active Owner membership and an
\* active grant of the id, which is the id of no store
C19_Witness ==
    /\ decision = "NotFound"
    /\ NoStore \notin StoreIds
    /\ \E m \in BagToSet(store_members) :
          m.store_id = NoStore /\ m.user_id = "u2" /\ m.is_active /\ m.role = "Owner"
    /\ \E g \in BagToSet(store_access_grants) :
          g.store_id = NoStore /\ g.user_id = "u2" /\ GrantIsActive(g)

RECURSIVE SumItemQuantity(_)
SumItemQuantity(S) ==
    IF S = {} THEN 0
    ELSE LET x == CHOOSE y \in S : TRUE IN x.quantity + SumItemQuantity(S \ {x})

\* C20: in every state a request can observe, a committed order group is there with
\* the orders of all stores of the lines its checkout loaded, and these with the
\* order items of all those lines; no order is there without its group and no item
\* without its order; and a step changes the committed stock of a product only
\* together with committed order items of the same total quantity.
C20_NoPartialOrders ==
    /\ [](/\ \A g \in order_groups : \E r \in Reqs :
                /\ req[r].op = "checkout" /\ req[r].gid = g.id
                /\ req[r].pc \in {"clear_cart", "done"}
                /\ LET lines == Range(req[r].items)
                       os == GroupOrders(g.id)
                   IN /\ {o.store_id : o \in os} = {l.store_id : l \in lines}
                      /\ Cardinality(os) = Cardinality({l.store_id : l \in lines})
                      /\ Cardinality(OrderItemsOf(os)) = Cardinality(lines)
                      /\ \A l \in lines : \E i \in OrderItemsOf(os) :
                            /\ i.product_id = l.product_id /\ i.quantity = l.quantity
                            /\ \E o \in os : o.id = i.order_id /\ o.store_id = l.store_id
          /\ \A o \in orders : \E g \in order_groups : g.id = o.order_group_id
          /\ \A i \in order_items : \E o \in orders : o.id = i.order_id)
    /\ [][(stock' # stock \/ order_items' # order_items) =>
            \A p \in Products :
               stock'[p] + SumItemQuantity({i \in order_items' : i.product_id = p})
               = stock[p] + SumItemQuantity({i \in order_items : i.product_id = p})]_vars

\* a checkout of two stores is committed while another transaction is open with
\* an order, an item and a decrement of its first store pending and its second
\* store still to come
C20_Witness ==
    /\ \E g \in order_groups : Cardinality(GroupOrders(g.id)) = 2
    /\ \E r \in Reqs :
          /\ req[r].op = "checkout" /\ req[r].pc = "line" /\ req[r].ci = 2
          /\ req[r].txOrders # {} /\ req[r].txItems # {} /\ req[r].txDelta # ZeroDelta

\* C21: each order item a checkout inserts carries the price the product has and
\* the quantity the cart line has at the moment of the insert, and the decrement
\* of that step is by the same quantity.
C21_SnapshotAtInsert ==
    [][\A r \in Reqs : \A i \in req'[r].txItems \ req[r].txItems :
          /\ i.unit_price = price[i.product_id]
          /\ i.quantity = LineQty(cart[req[r].user], i.product_id)
          /\ req'[r].txDelta[i.product_id] - req[r].txDelta[i.product_id] = i.quantity]_vars

\* a checkout has loaded the cart and inserted no item yet, and the price of the
\* product of its first line is no longer the price it loaded
C21_Witness ==
    \E r \in Reqs :
        /\ req[r].op = "checkout" /\ req[r].pc = "line" /\ req[r].txItems = {}
        /\ CurrentLine(r).unit_price # price[CurrentLine(r).product_id]

\* does the explicit permission set of membership m hold permission p?
C22_Explicit(m, p) ==
    \E v \in m.permissions : to_ascii_lowercase(v) = to_ascii_lowercase(as_str[p])

\* C22: for a user whose active memberships of a store are of role Manager, Staff
\* or Custom, on a private store and without an active grant, the call allows a
\* permission iff it is in the explicit set of the membership read, whatever the
\* defaults of the role: a Manager with an empty set is denied every permission.
C22_ExplicitOnly ==
    \A u \in Users, st \in stores, p \in Permissions :
        (/\ ActiveMemberships(u, st.id) # {}
         /\ \A m \in ActiveMemberships(u, st.id) : m.role \in {"Manager", "Staff", "Custom"}
         /\ st.is_private
         /\ \A g \in BagToSet(store_access_grants) :
               ~(g.store_id = st.id /\ g.user_id = u /\ ~g.is_revoked))
        => ensure_store_permission(u, st.id, p) =
              {IF C22_Explicit(m, p) THEN "Ok" ELSE "Authorization" :
                 m \in ActiveMemberships(u, st.id)}

\* u2 is a Manager of private sA with an empty explicit set and no grant, and
\* a call was refused
C22_Witness ==
    /\ decision = "Authorization"
    /\ \E st \in stores : st.id = "sA" /\ st.is_private
    /\ ActiveMemberships("u2", "sA") # {}
    /\ \A m \in ActiveMemberships("u2", "sA") : m.role = "Manager" /\ m.permissions = {}
    /\ \A g \in BagToSet(store_access_grants) : g.user_id # "u2"

\* C23: when the cart clear fails after the commit, the call returns the error,
\* the committed group, orders, items and stock stay as the commit left them,
\* and the cart lines stay in the cart.
C23_ClearFailureKeepsOrder ==
    [][\A r \in Reqs :
          (/\ req[r].op = "checkout" /\ req[r].pc = "clear_cart"
           /\ req'[r].pc = "done" /\ req'[r].result # "Ok")
          => /\ cart' = cart
             /\ stock' = stock
             /\ order_groups' = order_groups /\ orders' = orders /\ order_items' = order_items
             /\ \E g \in order_groups : g.id = req[r].gid /\ g.user_id = req[r].user
             /\ \A l \in Range(req[r].items) :
                   \E i \in OrderItemsOf(GroupOrders(req[r].gid)) :
                       i.product_id = l.product_id /\ i.quantity = l.quantity]_vars

\* a checkout of two lines returned the error of the cart clear: its group and
\* its two items are committed and the two lines are still in the cart
C23_Witness ==
    \E r \in Reqs :
        /\ CheckoutFailed(r, "Database") /\ Len(req[r].items) = 2
        /\ \E g \in order_groups : g.id = req[r].gid
        /\ Cardinality(OrderItemsOf(GroupOrders(req[r].gid))) = 2
        /\ Len(cart[req[r].user]) = 2

\* C24: when one user alone has built the cart by add_item calls that returned Ok
\* and nothing else changed the products, the checkout of that cart does not fail
\* with Conflict (insufficient stock).
C24_AcceptedCartChecksOut ==
    \A r \in Reqs : ~CheckoutFailed(r, "Conflict")

\* two add_item calls were accepted for the only product in the cart, the
\* checkout failed with Conflict, and the stock is what it was from the start
C24_Witness ==
    /\ CheckoutFailed("r1", "Conflict")
    /\ calls.add = 2
    /\ Len(cart["u1"]) = 1
    /\ cart["u1"][1].quantity > stock[cart["u1"][1].product_id]
    /\ order_items = {}

\* C25: the cart clear of a successful checkout removes only what the checkout
\* turned into order items: of every line, the quantity beyond the one the
\* checkout loaded is still in the cart after the clear (the user has no other
\* checkout call).
C25_ClearOnlyOrdered ==
    [][\A r \in Reqs :
          (/\ req[r].op = "checkout" /\ req[r].pc = "clear_cart"
           /\ req'[r].pc = "done" /\ req'[r].result = "Ok"
           /\ \A o \in Reqs \ {r} : ~(req[o].op = "checkout" /\ req[o].user = req[r].user))
          => \A p \in Products :
                LineQty(cart'[req[r].user], p) =
                    LineQty(cart[req[r].user], p) - LoadedQty(req[r].items, p)]_vars

\* a checkout committed and has the cart clear ahead, and the cart of its user
\* holds more than the checkout loaded: an add_item of the same user came between
C25_Witness ==
    \E r \in Reqs :
        /\ req[r].op = "checkout" /\ req[r].pc = "clear_cart"
        /\ \E p \in Products : LineQty(cart[req[r].user], p) > LoadedQty(req[r].items, p)
        /\ \E a \in Reqs : AddItemDone(a, "Ok") /\ req[a].user = req[r].user

\* C26: when the stock of every product suffices for the carts of all users, every
\* checkout that has begun its transaction eventually returns Ok: none fails and
\* none waits forever.
C26_AllCommit ==
    (\A p \in Products : stock[p] >= Cardinality(Users))
    => \A r \in Reqs : [](req[r].op = "checkout" /\ req[r].pc = "line" => <>CheckoutOk(r))

\* a checkout was failed by the database to break a lock cycle; the other one
\* committed and stock was left over for the failed one
C26_Witness ==
    /\ \E r \in Reqs : CheckoutFailed(r, "Database")
    /\ \E r \in Reqs : CheckoutOk(r)
    /\ \A p \in Products : stock[p] >= 1

\* the rows with an active grant of user u on store s
ActiveGrants(u, s) ==
    {g \in BagToSet(store_access_grants) :
        /\ g.store_id = s /\ g.user_id = u /\ ~g.is_revoked
        /\ (g.expires_at = Null \/ \E e \in g.expires_at : e > now)}

\* C27: for the rows stored, a call of ensure_store_permission for a user, a
\* store and a permission has one possible decision, also when the user has
\* several active grants or several active memberships of the store.
C27_Deterministic ==
    \A u \in Users, s \in Stores, p \in Permissions :
        Cardinality(ensure_store_permission(u, s, p)) = 1

\* a user holds an active View grant and an active ViewAndBuy grant of a
\* private store and no membership, and ProcessOrders can be allowed or refused
C27_Witness ==
    \E u \in Users, st \in stores :
        /\ st.is_private
        /\ ActiveMemberships(u, st.id) = {}
        /\ {g.access_level : g \in ActiveGrants(u, st.id)} = {"View", "ViewAndBuy"}
        /\ ensure_store_permission(u, st.id, "ProcessOrders") = {"Ok", "Authorization"}

\* does user c hold an active membership of store s that gives permission p?
\* (no public store and no access grant gives GrantAccess, RevokeAccess or
\* InviteMembers)
C28_Authorized(c, s, p) ==
    /\ s \in ExistingStores
    /\ \E m \in ActiveMemberships(c, s) : m.role \in {"Owner", "Admin"} \/ C22_Explicit(m, p)

\* C28: a call of invite_member, grant_access or revoke_access that creates or
\* changes a membership or a grant is by a caller authorized for InviteMembers,
\* GrantAccess or RevokeAccess on that store in the state of the change, and
\* a call that returns an error changes no store, membership or grant row.
C28_ChangesAuthorized ==
    [][/\ store_members' # store_members =>
             /\ store_access_grants' = store_access_grants
             /\ \A c \in Users, s \in Stores, t \in Users, role \in MemberRoles,
                   ps \in PermissionLists :
                   invite_member(c, s, t, role, ps) => C28_Authorized(c, s, "InviteMembers")
       /\ store_access_grants' # store_access_grants =>
             /\ store_members' = store_members
             /\ \A c \in Users, s \in Stores, t \in Users :
                   /\ \A level \in AccessLevels :
                         grant_access(c, s, t, level) => C28_Authorized(c, s, "GrantAccess")
                   /\ revoke_access(c, s, t) => C28_Authorized(c, s, "RevokeAccess")
       /\ decision' \in {"Authorization", "NotFound"} =>
             /\ stores' = stores
             /\ store_members' = store_members
             /\ store_access_grants' = store_access_grants]_vars

\* a call was refused while the tables hold a membership beside the owners' and
\* a grant, which authorized callers created
C28_Witness ==
    /\ decision = "Authorization"
    /\ BagCardinality(store_members) > Cardinality(stores)
    /\ store_access_grants # EmptyBag

\* C29: a membership that an invite_member call of caller c creates gives the
\* invited user no permission on the store that c does not hold in the state of
\* the call; so a caller who holds InviteMembers only creates no Owner or Admin.
C29_NoEscalation ==
    [][store_members' # store_members =>
          \A c \in Users, s \in Stores, t \in Users, role \in MemberRoles,
             ps \in PermissionLists :
             InviteMember(c, s, t, role, ps) =>
                \A p \in Permissions :
                   (role \in {"Owner", "Admin"} \/ p \in ps) => C28_Authorized(c, s, p)]_vars

\* u2, invited as Staff with InviteMembers only, is an Admin as well and can be
\* allowed what only the owner could do before
C29_Witness ==
    /\ \E m \in ActiveMemberships("u2", "sA") :
          m.role = "Staff" /\ m.permissions = {as_str["InviteMembers"]}
    /\ \E m \in ActiveMemberships("u2", "sA") : m.role = "Admin"
    /\ Cardinality(ActiveMemberships("u2", "sA")) = 2
    /\ "Ok" \in ensure_store_permission("u2", "sA", "RevokeAccess")

\* C30: every order item a checkout commits is of a product that is active in
\* the state of the commit.
C30_ActiveWhenSold ==
    [][\A r \in Reqs :
          (req[r].op = "checkout" /\ req[r].pc = "commit" /\ req'[r].pc = "clear_cart")
          => \A i \in req[r].txItems : is_active[i.product_id]]_vars

\* an update_product call has deactivated a product in the cart, which it can
\* only before a transaction locks the row, and a checkout has sold the product
C30_Witness ==
    \E i \in order_items, r \in Reqs, c \in Reqs :
        /\ ~is_active[i.product_id]
        /\ req[r].op = "update_product" /\ req[r].pc = "done"
        /\ CheckoutOk(c) /\ i.id[1] = c

====
